---- MODULE Spec2Model ----
(***************************************************************************)
(* Error classification and translation layer of the parser               *)
(* (parser/src/error.rs) and the execution-mode parser                     *)
(* (parser/src/mode.rs).                                                   *)
(*                                                                         *)
(* Every Rust enum value is a record with a "tag" field naming the         *)
(* variant and one field per payload; every struct is a record with the    *)
(* struct's field names.  Option<String> is [tag |-> "None"] or            *)
(* [tag |-> "Some", s |-> name].  The engine's token triple                *)
(* (Location, Tok, Location) is a 3-element sequence, so token.0 is        *)
(* token[1] and token.1 is token[2].                                       *)
(***************************************************************************)
EXTENDS Naturals, Sequences, FiniteSets, TLC

VARIABLES op, arg, res

vars == <<op, arg, res>>

(***************************************************************************)
(* Bounds of the model.                                                    *)
(***************************************************************************)
\* number of distinct source positions
MaxLoc == 2
\* longest list of expected-token names the engine reports
MaxExpected == 2
\* how many times an f-string expression error may be nested in the model
MaxDepth == 2

Locations == 1..MaxLoc

\* Tokens the engine can hand over (crate::token::Tok); Tok::Indent is the
\* distinguished indent token.
TokIndent == "Indent"
Toks == {TokIndent, "Dedent", "Newline"}

\* Names of terminals the engine puts in an expected list.
ExpectedNames == {"Indent", "indent", "Newline"}

\* Vec<String> of length 0..MaxExpected
ExpectedLists == UNION {[1..n -> ExpectedNames] : n \in 0..MaxExpected}

Chars == {"$"}
Messages == {"Got unexpected string", "invalid"}

None == [tag |-> "None"]
Some(x) == [tag |-> "Some", s |-> x]

(***************************************************************************)
(* The three mutually recursive error enums.                               *)
(***************************************************************************)
LexicalTags ==
  {"StringError", "UnicodeError", "NestingError", "IndentationError",
   "TabError", "DefaultArgumentError", "PositionalArgumentError",
   "DuplicateKeywordArgumentError", "LineContinuationError", "EOF"}

FStringTags ==
  {"UnclosedLbrace", "UnopenedRbrace", "ExpectedRbrace",
   "InvalidConversionFlag", "EmptyExpression", "MismatchedDelimiter",
   "ExpressionNestedTooDeeply"}

RECURSIVE ParseErrorType(_)
RECURSIVE LexicalErrorType(_)
RECURSIVE FStringErrorType(_)

\* enum FStringErrorType, values with at most d nested InvalidExpression
FStringErrorType(d) ==
  {[tag |-> t] : t \in FStringTags}
    \cup (IF d = 0 THEN {}
          ELSE {[tag |-> "InvalidExpression", pe |-> p] :
                  p \in ParseErrorType(d - 1)})

\* enum LexicalErrorType
LexicalErrorType(d) ==
  {[tag |-> t] : t \in LexicalTags}
    \cup {[tag |-> "UnrecognizedToken", ch |-> c] : c \in Chars}
    \cup {[tag |-> "OtherError", msg |-> m] : m \in Messages}
    \cup {[tag |-> "FStringError", fe |-> f] : f \in FStringErrorType(d)}

\* enum ParseErrorType
ParseErrorType(d) ==
  {[tag |-> "EOF"], [tag |-> "InvalidToken"]}
    \cup {[tag |-> "ExtraToken", tok |-> t] : t \in Toks}
    \cup {[tag |-> "UnrecognizedToken", tok |-> t, hint |-> h] :
            t \in Toks, h \in {None} \cup {Some(n) : n \in ExpectedNames}}
    \cup {[tag |-> "Lexical", le |-> l] : l \in LexicalErrorType(d)}

\* struct LexicalError
LexicalError(d) == [error : LexicalErrorType(d), location : Locations]

\* struct FStringError
FStringError(d) == [error : FStringErrorType(d), location : Locations]

\* struct ParseError
ParseError(d) == [error : ParseErrorType(d), location : Locations]

\* lalrpop_util::ParseError<Location, Tok, LexicalError>: the five shapes
Tokens == {<<s, t, e>> : s \in Locations, t \in Toks, e \in Locations}

LalrpopError(d) ==
  {[tag |-> "InvalidToken", location |-> l] : l \in Locations}
    \cup {[tag |-> "ExtraToken", token |-> k] : k \in Tokens}
    \cup {[tag |-> "User", error |-> e] : e \in LexicalError(d)}
    \cup {[tag |-> "UnrecognizedToken", token |-> k, expected |-> x] :
            k \in Tokens, x \in ExpectedLists}
    \cup {[tag |-> "UnrecognizedEOF", location |-> l, expected |-> x] :
            l \in Locations, x \in ExpectedLists}

(***************************************************************************)
(* Number of InvalidExpression hops inside a value.                        *)
(***************************************************************************)
RECURSIVE NestingDepth(_)
NestingDepth(p) ==
  IF p.tag = "Lexical" /\ p.le.tag = "FStringError"
       /\ p.le.fe.tag = "InvalidExpression"
  THEN 1 + NestingDepth(p.le.fe.pe)
  ELSE 0

(***************************************************************************)
(* impl From<FStringError> for LalrpopError<Location, Tok, LexicalError>   *)
(***************************************************************************)
\* Mutant: an InvalidExpression is unboxed and its lexical cause reported
\* directly instead of being kept inside the FStringError payload.
FromFStringError_Unboxed(err) ==
  IF err.error.tag = "InvalidExpression" /\ err.error.pe.tag = "Lexical"
  THEN [tag |-> "User",
        error |-> [error |-> err.error.pe.le, location |-> err.location]]
  ELSE [tag |-> "User",
        error |-> [error |-> [tag |-> "FStringError", fe |-> err.error],
                   location |-> err.location]]

FromFStringError(err) ==
  [tag |-> "User",
   error |-> [error |-> [tag |-> "FStringError", fe |-> err.error],
              location |-> err.location]]

(***************************************************************************)
(* impl From<LalrpopError<Location, Tok, LexicalError>> for ParseError     *)
(***************************************************************************)
\* Mutant: the first expected name is surfaced whenever there is one.
SingleExpected_First(expected) ==
  IF Len(expected) >= 1 THEN Some(expected[1]) ELSE None

\* The "only one possible expected token" rule of the UnrecognizedToken arm.
SingleExpected(expected) ==
  IF Len(expected) = 1 THEN Some(expected[1]) ELSE None

\* Mutant: a lexical EOF is consolidated into the parser's own EOF.
FromLalrpopError_EOFConsolidated(err) ==
  CASE err.tag = "InvalidToken" ->
         [error |-> [tag |-> "EOF"], location |-> err.location]
    [] err.tag = "ExtraToken" ->
         [error |-> [tag |-> "ExtraToken", tok |-> err.token[2]],
          location |-> err.token[1]]
    [] err.tag = "User" ->
         IF err.error.error.tag = "EOF"
         THEN [error |-> [tag |-> "EOF"], location |-> err.error.location]
         ELSE [error |-> [tag |-> "Lexical", le |-> err.error.error],
               location |-> err.error.location]
    [] err.tag = "UnrecognizedToken" ->
         [error |-> [tag |-> "UnrecognizedToken", tok |-> err.token[2],
                     hint |-> SingleExpected(err.expected)],
          location |-> err.token[1]]
    [] err.tag = "UnrecognizedEOF" ->
         [error |-> [tag |-> "EOF"], location |-> err.location]

\* Mutant: the engine's InvalidToken keeps its own variant.
FromLalrpopError_InvalidTokenKept(err) ==
  CASE err.tag = "InvalidToken" ->
         [error |-> [tag |-> "InvalidToken"], location |-> err.location]
    [] err.tag = "ExtraToken" ->
         [error |-> [tag |-> "ExtraToken", tok |-> err.token[2]],
          location |-> err.token[1]]
    [] err.tag = "User" ->
         [error |-> [tag |-> "Lexical", le |-> err.error.error],
          location |-> err.error.location]
    [] err.tag = "UnrecognizedToken" ->
         [error |-> [tag |-> "UnrecognizedToken", tok |-> err.token[2],
                     hint |-> SingleExpected(err.expected)],
          location |-> err.token[1]]
    [] err.tag = "UnrecognizedEOF" ->
         [error |-> [tag |-> "EOF"], location |-> err.location]

\* Mutant: a character the lexer did not recognize is reported as the
\* parser's InvalidToken.
FromLalrpopError_LexerTokenInvalid(err) ==
  CASE err.tag = "InvalidToken" ->
         [error |-> [tag |-> "EOF"], location |-> err.location]
    [] err.tag = "ExtraToken" ->
         [error |-> [tag |-> "ExtraToken", tok |-> err.token[2]],
          location |-> err.token[1]]
    [] err.tag = "User" ->
         IF err.error.error.tag = "UnrecognizedToken"
         THEN [error |-> [tag |-> "InvalidToken"],
               location |-> err.error.location]
         ELSE [error |-> [tag |-> "Lexical", le |-> err.error.error],
               location |-> err.error.location]
    [] err.tag = "UnrecognizedToken" ->
         [error |-> [tag |-> "UnrecognizedToken", tok |-> err.token[2],
                     hint |-> SingleExpected(err.expected)],
          location |-> err.token[1]]
    [] err.tag = "UnrecognizedEOF" ->
         [error |-> [tag |-> "EOF"], location |-> err.location]

\* Mutant: the parse error boxed in an f-string InvalidExpression is
\* surfaced as the result instead of staying nested.
FromLalrpopError_Unnested(err) ==
  CASE err.tag = "InvalidToken" ->
         [error |-> [tag |-> "EOF"], location |-> err.location]
    [] err.tag = "ExtraToken" ->
         [error |-> [tag |-> "ExtraToken", tok |-> err.token[2]],
          location |-> err.token[1]]
    [] err.tag = "User" ->
         IF err.error.error.tag = "FStringError"
              /\ err.error.error.fe.tag = "InvalidExpression"
         THEN [error |-> err.error.error.fe.pe,
               location |-> err.error.location]
         ELSE [error |-> [tag |-> "Lexical", le |-> err.error.error],
               location |-> err.error.location]
    [] err.tag = "UnrecognizedToken" ->
         [error |-> [tag |-> "UnrecognizedToken", tok |-> err.token[2],
                     hint |-> SingleExpected(err.expected)],
          location |-> err.token[1]]
    [] err.tag = "UnrecognizedEOF" ->
         [error |-> [tag |-> "EOF"], location |-> err.location]

FromLalrpopError(err) ==
  CASE err.tag = "InvalidToken" ->
         [error |-> [tag |-> "EOF"], location |-> err.location]
    [] err.tag = "ExtraToken" ->
         [error |-> [tag |-> "ExtraToken", tok |-> err.token[2]],
          location |-> err.token[1]]
    [] err.tag = "User" ->
         [error |-> [tag |-> "Lexical", le |-> err.error.error],
          location |-> err.error.location]
    [] err.tag = "UnrecognizedToken" ->
         [error |-> [tag |-> "UnrecognizedToken", tok |-> err.token[2],
                     hint |-> SingleExpected(err.expected)],
          location |-> err.token[1]]
    [] err.tag = "UnrecognizedEOF" ->
         [error |-> [tag |-> "EOF"], location |-> err.location]

(***************************************************************************)
(* Display and Debug forms of a token (crate::token::Tok).                 *)
(***************************************************************************)
TokDisplay(tok) ==
  CASE tok = "Indent" -> "Indent"
    [] tok = "Dedent" -> "Dedent"
    [] tok = "Newline" -> "NewLine"

TokDebug(tok) ==
  CASE tok = "Indent" -> "Indent"
    [] tok = "Dedent" -> "Dedent"
    [] tok = "Newline" -> "Newline"

(***************************************************************************)
(* impl fmt::Display for LexicalErrorType / FStringErrorType /             *)
(* ParseErrorType                                                          *)
(***************************************************************************)
RECURSIVE DisplayLexicalErrorType(_)
RECURSIVE DisplayFStringErrorType(_)
RECURSIVE DisplayParseErrorType(_)

DisplayLexicalErrorType(e) ==
  CASE e.tag = "StringError" -> "Got unexpected string"
    [] e.tag = "FStringError" ->
         "Got error in f-string: " \o DisplayFStringErrorType(e.fe)
    [] e.tag = "UnicodeError" -> "Got unexpected unicode"
    [] e.tag = "NestingError" -> "Got unexpected nesting"
    [] e.tag = "IndentationError" ->
         "unindent does not match any outer indentation level"
    [] e.tag = "TabError" ->
         "inconsistent use of tabs and spaces in indentation"
    [] e.tag = "DefaultArgumentError" ->
         "non-default argument follows default argument"
    [] e.tag = "DuplicateKeywordArgumentError" -> "keyword argument repeated"
    [] e.tag = "PositionalArgumentError" ->
         "positional argument follows keyword argument"
    [] e.tag = "UnrecognizedToken" -> "Got unexpected token " \o e.ch
    [] e.tag = "LineContinuationError" ->
         "unexpected character after line continuation character"
    [] e.tag = "EOF" -> "unexpected EOF while parsing"
    [] e.tag = "OtherError" -> e.msg

DisplayFStringErrorType(e) ==
  CASE e.tag = "UnclosedLbrace" -> "Unclosed '{'"
    [] e.tag = "UnopenedRbrace" -> "Unopened '}'"
    [] e.tag = "ExpectedRbrace" -> "Expected '}' after conversion flag."
    [] e.tag = "InvalidExpression" ->
         "Invalid expression: " \o DisplayParseErrorType(e.pe)
    [] e.tag = "InvalidConversionFlag" -> "Invalid conversion flag"
    [] e.tag = "EmptyExpression" -> "Empty expression"
    [] e.tag = "MismatchedDelimiter" -> "Mismatched delimiter"
    [] e.tag = "ExpressionNestedTooDeeply" -> "expressions nested too deeply"

\* Mutant: the expected-token hint is looked at before the token itself.
DisplayParseErrorType_HintFirst(e) ==
  CASE e.tag = "EOF" -> "Got unexpected EOF"
    [] e.tag = "ExtraToken" -> "Got extraneous token: " \o TokDebug(e.tok)
    [] e.tag = "InvalidToken" -> "Got invalid token"
    [] e.tag = "UnrecognizedToken" ->
         IF e.hint = Some("Indent")
         THEN "expected an indented block"
         ELSE IF e.tok = TokIndent
              THEN "unexpected indent"
              ELSE "Got unexpected token " \o TokDisplay(e.tok)
    [] e.tag = "Lexical" -> DisplayLexicalErrorType(e.le)

DisplayParseErrorType(e) ==
  CASE e.tag = "EOF" -> "Got unexpected EOF"
    [] e.tag = "ExtraToken" -> "Got extraneous token: " \o TokDebug(e.tok)
    [] e.tag = "InvalidToken" -> "Got invalid token"
    [] e.tag = "UnrecognizedToken" ->
         IF e.tok = TokIndent
         THEN "unexpected indent"
         ELSE IF e.hint = Some("Indent")
              THEN "expected an indented block"
              ELSE "Got unexpected token " \o TokDisplay(e.tok)
    [] e.tag = "Lexical" -> DisplayLexicalErrorType(e.le)

(***************************************************************************)
(* impl ParseErrorType: the classification predicates                      *)
(***************************************************************************)
\* Mutant: a TabError is counted as an indentation error.
is_indentation_error_WithTab(self) ==
  CASE self.tag = "Lexical"
         /\ self.le.tag \in {"IndentationError", "TabError"} -> TRUE
    [] self.tag = "UnrecognizedToken" ->
         \/ self.tok = TokIndent
         \/ (IF self.hint.tag = "Some" THEN self.hint.s = "Indent" ELSE FALSE)
    [] OTHER -> FALSE

is_indentation_error(self) ==
  CASE self.tag = "Lexical" /\ self.le.tag = "IndentationError" -> TRUE
    [] self.tag = "UnrecognizedToken" ->
         \/ self.tok = TokIndent
         \/ (IF self.hint.tag = "Some" THEN self.hint.s = "Indent" ELSE FALSE)
    [] OTHER -> FALSE

\* Mutant: an IndentationError is counted as a tab error.
is_tab_error_WithIndentation(self) ==
  self.tag = "Lexical" /\ self.le.tag \in {"TabError", "IndentationError"}

is_tab_error(self) ==
  self.tag = "Lexical" /\ self.le.tag = "TabError"

(***************************************************************************)
(* mode.rs: impl core::str::FromStr for Mode, Display for ModeParseError   *)
(***************************************************************************)
ModeInputs == {"exec", "single", "eval", "Exec", "", "foo", "EVAL", "exe"}

\* Mutant: the mode name is matched without regard to case.
from_str_IgnoreCase(s) ==
  CASE s \in {"exec", "single", "Exec"} -> [tag |-> "Ok", mode |-> "Program"]
    [] s \in {"eval", "EVAL"} -> [tag |-> "Ok", mode |-> "Statement"]
    [] OTHER -> [tag |-> "Err", err |-> [tag |-> "ModeParseError"]]

from_str(s) ==
  CASE s = "exec" \/ s = "single" -> [tag |-> "Ok", mode |-> "Program"]
    [] s = "eval" -> [tag |-> "Ok", mode |-> "Statement"]
    [] OTHER -> [tag |-> "Err", err |-> [tag |-> "ModeParseError"]]

DisplayModeParseError(e) ==
  "mode should be \"exec\", \"eval\", or \"single\""

(***************************************************************************)
(* The state: the operation performed last, its argument and its result.   *)
(***************************************************************************)
Nothing == [tag |-> "Nothing"]
Text(t) == [tag |-> "Text", text |-> t]
Bool(b) == [tag |-> "Bool", b |-> b]

Init ==
  /\ op = "init"
  /\ arg = Nothing
  /\ res = Nothing

\* The grammar engine rejects the input with one of its five shapes.
EngineReport ==
  \E e \in LalrpopError(0) :
    /\ op' = "engine"
    /\ arg' = Nothing
    /\ res' = e

\* A caller builds a ParseError value directly (the types are public).
Construct ==
  \E p \in ParseError(0) :
    /\ op' = "construct"
    /\ arg' = Nothing
    /\ res' = p

\* The f-string sub-parser fails for a reason of its own.
FStringFail ==
  \E f \in FStringError(0) :
    /\ op' = "fstring"
    /\ arg' = Nothing
    /\ res' = f

\* The f-string sub-parser ran the full parser on an inner expression, got
\* a ParseError and boxes its error: InvalidExpression(Box::new(e.error)).
InvalidExpression ==
  /\ op \in {"translate", "construct"}
  /\ NestingDepth(res.error) < MaxDepth
  /\ \E l \in Locations :
       res' = [error |-> [tag |-> "InvalidExpression", pe |-> res.error],
               location |-> l]
  /\ arg' = res
  /\ op' = "invalid_expression"

\* FStringError -> engine error (From<FStringError>)
ConvertFStringError ==
  /\ op \in {"fstring", "invalid_expression"}
  /\ op' = "from_fstring"
  /\ arg' = res
  /\ res' = FromFStringError(res)

\* engine error -> ParseError (From<LalrpopError>)
Translate ==
  /\ op \in {"engine", "from_fstring"}
  /\ op' = "translate"
  /\ arg' = res
  /\ res' = FromLalrpopError(res)

IsIndentationError ==
  /\ op \in {"translate", "construct"}
  /\ op' = "is_indentation_error"
  /\ arg' = res.error
  /\ res' = Bool(is_indentation_error(res.error))

IsTabError ==
  /\ op \in {"translate", "construct"}
  /\ op' = "is_tab_error"
  /\ arg' = res.error
  /\ res' = Bool(is_tab_error(res.error))

Display ==
  /\ op \in {"translate", "construct"}
  /\ op' = "display"
  /\ arg' = res.error
  /\ res' = Text(DisplayParseErrorType(res.error))

ModeFromStr ==
  \E s \in ModeInputs :
    /\ op' = "from_str"
    /\ arg' = Text(s)
    /\ res' = from_str(s)

ModeErrorDisplay ==
  /\ op = "from_str"
  /\ res.tag = "Err"
  /\ op' = "mode_error_display"
  /\ arg' = res.err
  /\ res' = Text(DisplayModeParseError(res.err))

Next ==
  \/ EngineReport
  \/ Construct
  \/ FStringFail
  \/ InvalidExpression
  \/ ConvertFStringError
  \/ Translate
  \/ IsIndentationError
  \/ IsTabError
  \/ Display
  \/ ModeFromStr
  \/ ModeErrorDisplay

Spec == Init /\ [][Next]_vars

(***************************************************************************)
(* Properties.                                                             *)
(***************************************************************************)

\* C1: translating an engine UnrecognizedToken with token T at position P
\* and expected list E yields UnrecognizedToken(T, hint) at P, where hint is
\* Some(the single member) when E has exactly one member and None when E
\* has no member or two or more.
C1_SingleExpectedHint ==
  (op = "translate" /\ arg.tag = "UnrecognizedToken") =>
    /\ res.location = arg.token[1]
    /\ res.error.tag = "UnrecognizedToken"
    /\ res.error.tok = arg.token[2]
    /\ (Len(arg.expected) = 1 => res.error.hint = Some(arg.expected[1]))
    /\ (Len(arg.expected) = 0 \/ Len(arg.expected) >= 2
          => res.error.hint = None)

C1_Witness ==
  /\ op = "translate"
  /\ arg.tag = "UnrecognizedToken"
  /\ Len(arg.expected) = MaxExpected
  /\ arg.token[1] # arg.token[3]
  /\ res.error.hint = None

\* C2: translating an engine User error carrying LexicalError {error: e,
\* location: L} yields Lexical(e), e unchanged, at L, for every variant e.
C2_UserIsLexical ==
  (op = "translate" /\ arg.tag = "User") =>
    /\ res.error.tag = "Lexical"
    /\ res.error.le = arg.error.error
    /\ res.location = arg.error.location

C2_Witness ==
  /\ op = "translate"
  /\ arg.tag = "User"
  /\ arg.error.error.tag = "EOF"
  /\ res.error.tag = "Lexical"
  /\ res.location = MaxLoc

\* C3: the engine shapes InvalidToken at P and UnrecognizedEOF at P (whatever
\* its expected list) both translate to ParseError {error: EOF, location: P}.
C3_InvalidTokenAndEOFCollapse ==
  (op = "translate" /\ arg.tag \in {"InvalidToken", "UnrecognizedEOF"}) =>
    res = [error |-> [tag |-> "EOF"], location |-> arg.location]

C3_Witness ==
  /\ op = "translate"
  /\ arg.tag = "UnrecognizedEOF"
  /\ Len(arg.expected) = 1
  /\ res.error.tag = "EOF"

\* C4: is_indentation_error(v) is true exactly when v is
\* Lexical(IndentationError), or an UnrecognizedToken whose token is the
\* indent token, or an UnrecognizedToken whose hint is Some("Indent").
C4_IsIndentationError ==
  (op = "is_indentation_error") =>
    (res.b <=>
       \/ arg = [tag |-> "Lexical", le |-> [tag |-> "IndentationError"]]
       \/ (arg.tag = "UnrecognizedToken" /\ arg.tok = TokIndent)
       \/ (arg.tag = "UnrecognizedToken" /\ arg.hint = Some("Indent")))

C4_Witness ==
  /\ op = "is_indentation_error"
  /\ arg.tag = "UnrecognizedToken"
  /\ arg.tok # TokIndent
  /\ arg.hint = Some("Indent")
  /\ res.b

\* C5: is_tab_error(v) is true exactly when v is Lexical(TabError), and no
\* value satisfies both is_tab_error and is_indentation_error.
C5_IsTabError ==
  (op = "is_tab_error") =>
    /\ (res.b <=> arg = [tag |-> "Lexical", le |-> [tag |-> "TabError"]])
    /\ ~(res.b /\ is_indentation_error(arg))

C5_Witness ==
  /\ op = "is_tab_error"
  /\ arg.tag = "Lexical"
  /\ arg.le.tag = "TabError"
  /\ res.b

\* C6: converting FStringError {error: f, location: L} into the engine shape
\* yields User carrying LexicalError {error: FStringError(f), location: L};
\* for f = InvalidExpression(p) the nested parse error is still p.
C6_FStringErrorWrapped ==
  (op = "from_fstring") =>
    /\ res.tag = "User"
    /\ res.error.location = arg.location
    /\ res.error.error.tag = "FStringError"
    /\ res.error.error.fe = arg.error
    /\ (arg.error.tag = "InvalidExpression"
          => /\ res.error.error.fe.tag = "InvalidExpression"
             /\ res.error.error.fe.pe = arg.error.pe)

C6_Witness ==
  /\ op = "from_fstring"
  /\ arg.error.tag = "InvalidExpression"
  /\ arg.error.pe.tag = "Lexical"
  /\ res.error.error.fe.pe.tag = "Lexical"

\* C7 (as stated): the mutual nesting ParseErrorType -> Lexical ->
\* FStringError -> InvalidExpression -> ParseErrorType never goes beyond
\* one hop.
C7_AtMostOneHop ==
  (op \in {"translate", "construct"}) => NestingDepth(res.error) <= 1

\* C7 (amended): the parse error held by InvalidExpression may itself hold
\* an f-string error; translating the engine error made from
\* InvalidExpression(p) yields a value that holds p unchanged and is nested
\* exactly one hop deeper than p.
C7_OneHopPerNesting ==
  (/\ op = "translate"
   /\ arg.tag = "User"
   /\ arg.error.error.tag = "FStringError"
   /\ arg.error.error.fe.tag = "InvalidExpression") =>
    /\ res.error.tag = "Lexical"
    /\ res.error.le.tag = "FStringError"
    /\ res.error.le.fe.tag = "InvalidExpression"
    /\ res.error.le.fe.pe = arg.error.error.fe.pe
    /\ NestingDepth(res.error) = NestingDepth(arg.error.error.fe.pe) + 1

C7_Witness ==
  /\ op = "translate"
  /\ arg.tag = "User"
  /\ NestingDepth(res.error) = 2

\* C8: Display of UnrecognizedToken(tok, hint) is "unexpected indent" when
\* tok is the indent token (whatever the hint), otherwise "expected an
\* indented block" when hint is Some("Indent"), otherwise "Got unexpected
\* token " followed by the token's display form.
C8_UnrecognizedTokenDisplay ==
  (op = "display" /\ arg.tag = "UnrecognizedToken") =>
    /\ (arg.tok = TokIndent => res.text = "unexpected indent")
    /\ (arg.tok # TokIndent /\ arg.hint = Some("Indent")
          => res.text = "expected an indented block")
    /\ (arg.tok # TokIndent /\ arg.hint # Some("Indent")
          => res.text = "Got unexpected token " \o TokDisplay(arg.tok))

C8_Witness ==
  /\ op = "display"
  /\ arg.tag = "UnrecognizedToken"
  /\ arg.tok = TokIndent
  /\ arg.hint = Some("Indent")
  /\ res.text = "unexpected indent"

\* C9: Mode::from_str(s) is Ok(Program) exactly when s is "exec" or
\* "single", Ok(Statement) exactly when s is "eval", and otherwise an error
\* whose Display text is the fixed message.
C9_ModeFromStr ==
  /\ (op = "from_str") =>
       /\ (res = [tag |-> "Ok", mode |-> "Program"]
             <=> arg.text \in {"exec", "single"})
       /\ (res = [tag |-> "Ok", mode |-> "Statement"] <=> arg.text = "eval")
       /\ (res.tag = "Err" <=> arg.text \notin {"exec", "single", "eval"})
  /\ (op = "mode_error_display") =>
       res.text = "mode should be \"exec\", \"eval\", or \"single\""

C9_Witness ==
  /\ op = "from_str"
  /\ arg.text = "Exec"
  /\ res.tag = "Err"

\* C10: the translation is defined on each of the five engine shapes and
\* its result's error is one of EOF, ExtraToken, UnrecognizedToken or
\* Lexical, never InvalidToken.
C10_NeverInvalidToken ==
  (op = "translate") =>
    /\ arg.tag \in {"InvalidToken", "ExtraToken", "User",
                    "UnrecognizedToken", "UnrecognizedEOF"}
    /\ res.error.tag \in {"EOF", "ExtraToken", "UnrecognizedToken", "Lexical"}
    /\ res.error.tag # "InvalidToken"

C10_Witness ==
  /\ op = "translate"
  /\ arg.tag = "InvalidToken"
  /\ res.error.tag = "EOF"

====
